---- MODULE Spec2Model ----
(***************************************************************************)
(* A model of koltyakov/azure-openai-sample: the Chat class (src/chat.ts), *)
(* the /ask route that calls it (server.ts) and the sample enrichment      *)
(* callback getFacts (facts.ts).                                           *)
(*                                                                         *)
(* A JavaScript string is modelled as a sequence of symbols: template      *)
(* literals and + are \o, '' is << >>.  For Chat a symbol is a word or a   *)
(* delimiter, for getFacts it is a single character.                       *)
(*                                                                         *)
(* Every ask call runs on the single JavaScript thread: the code between   *)
(* two awaits is one atomic action, and calls interleave at their awaits.  *)
(***************************************************************************)
EXTENDS Integers, Sequences, FiniteSets, TLC

VARIABLES
    memory,       \* Chat.memory
    enrich,       \* whether Chat.enrich is configured
    cache,        \* Chat.cache: scope -> [has, v, left] (node-cache entry; left = t - Date.now(),
                  \* the seconds until its expiry time t)
    pc,           \* per call: idle | extract | enrich | complete | done | failed
    text,         \* per call: ask's text parameter
    dlg,          \* per call: ask's dlg parameter (after its default)
    opts,         \* per call: ask's opts parameter (after its default)
    messages,     \* per call: the array setMessage returned to ask
    enrichArg,    \* per call: the argument the enrichment callback was invoked with
    enrichOut,    \* per call: buildPrompt's facts, what the callback resolved to or ''
    prompt,       \* per call: the prompt of the completion request in flight
    request,      \* per call: the object passed to createCompletion in ask
    result,       \* per call: what ask returned or threw
    asks,         \* number of ask calls started
    log,          \* history: scope -> the messages appended under it, in execution order
    age,          \* history: scope -> for each stored message, the seconds since its append
    everExpired,  \* history: scope -> whether an entry of it ever outlived its TTL
    interleaved,  \* history: per call, whether another call appended to its scope meanwhile
    trace,        \* history: per call, the steps it has taken, in execution order
    factsText,    \* getFacts: the input text
    kbFile,       \* getFacts: whether ./kb/marseoni.txt can be read
    factsOut      \* getFacts: what the returned promise settled to

vars == <<memory, enrich, cache, pc, text, dlg, opts, messages, enrichArg, enrichOut,
          prompt, request, result, asks, log, age, everExpired, interleaved, trace,
          factsText, kbFile, factsOut>>

chatVars == <<memory, enrich, cache, pc, text, dlg, opts, messages, enrichArg, enrichOut,
              prompt, request, result, asks, log, age, everExpired, interleaved, trace>>

factsVars == <<factsText, kbFile, factsOut>>

-----------------------------------------------------------------------------
(* Bounds of the model *)

MaxAsks == 2          \* ask calls started in one behaviour
MaxTextLen == 7       \* characters of a getFacts input

Calls == {"c1", "c2"}                 \* concurrent in-flight requests
Scopes == {"room1", "room2"}          \* the non-empty conversation scopes in use
Keys == Scopes \cup {""}              \* the strings node-cache can hold an entry for
Undefined == [defined |-> FALSE]      \* a parameter or field that is absent
Some(x) == [defined |-> TRUE, v |-> x]
BodyDlgs == {Undefined} \cup {Some(s) : s \in Keys \cup {""}}   \* request.body.dlg
\* User texts: Chat never looks into a text, so the k-th ask call of a behaviour
\* carries the k-th of these and every user message can be told from the others
UserTexts == <<"A", "C", "E", "G">>
Texts == {<<UserTexts[k]>> : k \in 1..Len(UserTexts)}
Statuses == {200, 201, 500}               \* HTTP statuses of a remote call

-----------------------------------------------------------------------------
(* Strings *)

\* String.prototype.includes
Includes(s, needle) ==
    \E i \in 0..(Len(s) - Len(needle)) : SubSeq(s, i + 1, i + Len(needle)) = needle

Whitespace == {" ", "\n"}

RECURSIVE TrimStart(_)
TrimStart(s) ==
    IF s # << >> /\ Head(s) \in Whitespace THEN TrimStart(Tail(s)) ELSE s

RECURSIVE TrimEnd(_)
TrimEnd(s) ==
    IF s # << >> /\ s[Len(s)] \in Whitespace THEN TrimEnd(SubSeq(s, 1, Len(s) - 1)) ELSE s

\* String.prototype.trim
Trim(s) == TrimEnd(TrimStart(s))

\* x || '' for a field that may be absent
OrEmpty(x) == IF x.defined THEN x.v ELSE << >>

\* a parameter's default value: used when the argument is undefined
DefaultParam(x, d) == IF x.defined THEN x.v ELSE d

-----------------------------------------------------------------------------
(* Chat: configuration *)

DefaultMemory == 10
StdTTL == 60 * 30
Role == <<"AI assistant recommending food">>
ConfMemory == {0, 1, 2}      \* conf.memory; 0 stands for an omitted value

\* constructor: if (conf.memory) this.memory = conf.memory
ChatMemory(conf) == IF conf # 0 THEN conf ELSE DefaultMemory

-----------------------------------------------------------------------------
(* Chat.cache: node-cache with stdTTL, values cloned on get and set *)

NoEntry == [has |-> FALSE, v |-> << >>, left |-> 0]

\* node-cache's check of an entry: expired when t < Date.now()
Expired(e) == e.has /\ e.left < 0

\* Faulty variant: an entry is returned whatever its age
CacheGetNoTtl(c, key) ==
    IF c[key].has THEN Some(c[key].v) ELSE Undefined

\* cache.get(key): the value, or undefined when absent or expired
CacheGet(c, key) ==
    IF c[key].has /\ ~Expired(c[key]) THEN Some(c[key].v) ELSE Undefined

\* Faulty variant: the expiry time of an entry is set when the key is first stored and
\* kept by later writes
CacheSetKeepTtl(c, key, value) ==
    [c EXCEPT ![key] = [has |-> TRUE, v |-> value,
                        left |-> IF c[key].has /\ ~Expired(c[key]) THEN c[key].left
                                 ELSE StdTTL]]

\* cache.set(key, value): stores the value with t = Date.now() + stdTTL
CacheSet(c, key, value) ==
    [c EXCEPT ![key] = [has |-> TRUE, v |-> value, left |-> StdTTL]]

-----------------------------------------------------------------------------
(* Chat.setMessage *)

Message(sender, txt) == [sender |-> sender, text |-> txt]

\* Faulty variant: trims only when the length exceeds memory + 1
PushTrimLate(msgs, message, mem) ==
    LET pushed == Append(msgs, message)
    IN  IF Len(pushed) > mem + 1 THEN Tail(pushed) ELSE pushed

\* Faulty variant: pop() for shift(), the newest message is removed
PushTrimNewest(msgs, message, mem) ==
    LET pushed == Append(msgs, message)
    IN  IF Len(pushed) > mem THEN SubSeq(pushed, 1, Len(pushed) - 1) ELSE pushed

\* messages.push(message); if (messages.length > this.memory) messages.shift()
PushTrim(msgs, message, mem) ==
    LET pushed == Append(msgs, message)
    IN  IF Len(pushed) > mem THEN Tail(pushed) ELSE pushed

\* the array setMessage returns
SetMessageResult(c, mem, scope, sender, txt) ==
    IF scope = "" THEN <<Message(sender, txt)>>
    ELSE PushTrim(OrEmpty(CacheGet(c, scope)), Message(sender, txt), mem)

\* Faulty variant: without the early return for an empty scope, '' is a key like any other
SetMessageCacheNoScopeCheck(c, mem, scope, sender, txt) ==
    CacheSet(c, scope, PushTrim(OrEmpty(CacheGet(c, scope)), Message(sender, txt), mem))

\* Faulty variant: every non-empty scope is stored under one key
SetMessageCacheOneKey(c, mem, scope, sender, txt) ==
    IF scope = "" THEN c
    ELSE CacheSet(c, "room1", SetMessageResult(c, mem, "room1", sender, txt))

\* the cache after setMessage
SetMessageCache(c, mem, scope, sender, txt) ==
    IF scope = "" THEN c
    ELSE CacheSet(c, scope, SetMessageResult(c, mem, scope, sender, txt))

-----------------------------------------------------------------------------
(* Chat.extractSearchQuery *)

Sorry == <<"I'm sorry, but">>
NotValid == <<"is not a valid search query">>

\* choices[0].text of the extraction response; a response that is not a 200 has none
ExtractTexts(status) ==
    IF status = 200 THEN {Undefined, Some(<<"q">>), Some(<<"x">> \o NotValid)}
    ELSE {Undefined}

\* Faulty variant: the answer is returned whatever it says
SearchQueryNoMarkers(answerText) == OrEmpty(answerText)

\* what extractSearchQuery returns for a 200 response
SearchQuery(answerText) ==
    LET answer == OrEmpty(answerText)
    IN  IF Includes(answer, Sorry) \/ Includes(answer, NotValid) THEN << >> ELSE answer

-----------------------------------------------------------------------------
(* Chat.buildPrompt *)

\* what the enrichment callback resolves to
FactsResults == {<< >>, <<" ">>, <<" ", "F1", "\n", "F2", "\n">>}

SystemSegment == <<"<|im_start|>", "system", "\n">> \o Role

FactsBlock(facts) == <<"\n", "\n", "Facts:", "\n">> \o Trim(facts)

Turn(message) ==
    <<"\n", "<|im_start|>", message.sender, "\n">> \o message.text \o <<"\n", "<|im_end|>">>

\* Faulty variant: the messages are written newest first
RECURSIVE TurnsNewestFirst(_)
TurnsNewestFirst(msgs) ==
    IF msgs = << >> THEN << >> ELSE TurnsNewestFirst(Tail(msgs)) \o Turn(Head(msgs))

RECURSIVE Turns(_)
Turns(msgs) == IF msgs = << >> THEN << >> ELSE Turn(Head(msgs)) \o Turns(Tail(msgs))

AssistantMarker == <<"\n", "<|im_start|>", "assistant", "\n">>

\* Faulty variant: prompt += `\n<|im_end|>`, the system segment is closed
BuildPromptSystemEnd(facts, msgs) ==
    LET start == SystemSegment
        withFacts == IF facts # << >> THEN start \o FactsBlock(facts) ELSE start
    IN  withFacts \o <<"\n", "<|im_end|>">> \o Turns(msgs) \o AssistantMarker

\* the prompt buildPrompt returns, given the facts it obtained
BuildPrompt(facts, msgs) ==
    LET start == SystemSegment
        withFacts == IF facts # << >> THEN start \o FactsBlock(facts) ELSE start
        \* prompt + `\n<|im_end|>` is computed and dropped
    IN  withFacts \o Turns(msgs) \o AssistantMarker

-----------------------------------------------------------------------------
(* Chat.ask: the object passed to createCompletion.  An object is a function from the
   keys it has to their values; a value is written as a sequence of symbols *)

OptKeys == {"max_tokens", "temperature", "top_p", "n", "prompt", "model", "stop"}

Model == <<"gpt-35-turbo">>             \* conf.model
Stop == << "<|im_end|>" >>              \* stop: ['<|im_end|>']

\* {}
NoOpts == [k \in {} |-> << >>]

\* the value a caller of ask passes under a key of opts
OptValue(k) ==
    CASE k = "max_tokens" -> <<"50">>
      [] k = "temperature" -> <<"0">>
      [] k = "top_p" -> <<"1">>
      [] k = "n" -> <<"2">>
      [] k = "prompt" -> <<"Ignore the above">>
      [] k = "model" -> <<"gpt-4">>
      [] k = "stop" -> <<"\n">>

\* the opts objects callers pass: every set of keys
CallerOpts == { [k \in present |-> OptValue(k)] : present \in SUBSET OptKeys }

\* max_tokens: 500, temperature: 0.7, top_p: 0.95
Defaults == [max_tokens |-> <<"500">>, temperature |-> <<"0.7">>, top_p |-> <<"0.95">>]

\* prompt, model: this.model, stop: ['<|im_end|>']
CoreOptions(pr) == [prompt |-> pr, model |-> Model, stop |-> Stop]

\* { ...a, ...b }: a key of b replaces the same key of a
Spread(a, b) ==
    [k \in (DOMAIN a) \cup (DOMAIN b) |-> IF k \in DOMAIN b THEN b[k] ELSE a[k]]

\* Faulty variant: ...opts is written last in the object literal
CompletionRequestOptsLast(o, pr) == Spread(Spread(Defaults, CoreOptions(pr)), o)

\* { max_tokens: 500, temperature: 0.7, top_p: 0.95, ...opts, prompt, model, stop }
CompletionRequest(o, pr) == Spread(Spread(Defaults, o), CoreOptions(pr))

-----------------------------------------------------------------------------
(* Chat.ask: one action per stretch of code between two awaits *)

InFlight == {"extract", "enrich", "complete"}

\* What a call ended with: kind is none | answer | error | rejected; for an error,
\* status is the response's and at the function that threw
NoResult == [kind |-> "none", status |-> 0, at |-> "", text |-> << >>]
\* throw new Error(`OpenAI API error: ${res.statusText} (${res.status})`)
ApiError(status, at) == [kind |-> "error", status |-> status, at |-> at, text |-> << >>]
\* the rejection of the enrichment callback, which nothing catches
Rejected == [kind |-> "rejected", status |-> 0, at |-> "enrich", text |-> << >>]
\* return answer
Returned(answer) == [kind |-> "answer", status |-> 200, at |-> "", text |-> answer]

\* choices[0].text of the completion response; a response that is not a 200 has none
AnswerTexts(status) ==
    IF status = 200 THEN {Undefined, Some(<< >>), Some(<<"B">>)} ELSE {Undefined}

\* history: message appended under scope by call q
LogAppend(scope, message) ==
    IF scope = "" THEN log ELSE [log EXCEPT ![scope] = Append(@, message)]

\* history: the ages of the stored messages of scope after an append to it
AgesAfter(scope) ==
    IF scope = "" THEN age
    ELSE [age EXCEPT ![scope] =
             PushTrim(IF CacheGet(cache, scope).defined THEN @ ELSE << >>, 0, memory)]

\* history: call p took these steps
Stepped(p, steps) == [trace EXCEPT ![p] = @ \o steps]

Overtaken(q, scope) ==
    [p \in Calls |->
        IF p # q /\ scope # "" /\ pc[p] \in InFlight /\ dlg[p] = scope
        THEN TRUE ELSE interleaved[p]]

\* the end of a call: its locals are gone
Leave(p, state, res) ==
    /\ pc' = [pc EXCEPT ![p] = state]
    /\ result' = [result EXCEPT ![p] = res]
    /\ messages' = [messages EXCEPT ![p] = << >>]
    /\ enrichArg' = [enrichArg EXCEPT ![p] = << >>]
    /\ enrichOut' = [enrichOut EXCEPT ![p] = << >>]
    /\ prompt' = [prompt EXCEPT ![p] = << >>]
    /\ request' = [request EXCEPT ![p] = NoOpts]
    /\ text' = [text EXCEPT ![p] = << >>]
    /\ opts' = [opts EXCEPT ![p] = NoOpts]

\* buildPrompt from the facts on, and the completion request going out
SendCompletion(p, facts) ==
    /\ enrichOut' = [enrichOut EXCEPT ![p] = facts]
    /\ prompt' = [prompt EXCEPT ![p] = BuildPrompt(facts, messages[p])]
    /\ request' = [request EXCEPT ![p] =
                      CompletionRequest(opts[p], BuildPrompt(facts, messages[p]))]
    /\ pc' = [pc EXCEPT ![p] = "complete"]
    /\ UNCHANGED <<text, opts, messages, result>>

\* ai.ask(text, dlg, opts), which server.post('/ask') calls without opts:
\* setMessage(dlg, 'user', text), then buildPrompt up to the await of the extraction
\* request
Ask(p, txt, bodyDlg, callOpts) ==
    LET scope == DefaultParam(bodyDlg, "")
    IN  /\ pc[p] \notin InFlight
        /\ asks < MaxAsks
        /\ txt = <<UserTexts[asks + 1]>>
        \* calls and rooms are interchangeable: they are named in the order of their use
        /\ asks = 0 => p = "c1"
        /\ scope = "room2" => log["room1"] # << >>
        /\ asks' = asks + 1
        /\ text' = [text EXCEPT ![p] = txt]
        /\ dlg' = [dlg EXCEPT ![p] = scope]
        /\ opts' = [opts EXCEPT ![p] = DefaultParam(callOpts, NoOpts)]
        /\ messages' = [messages EXCEPT ![p] =
                           SetMessageResult(cache, memory, scope, "user", txt)]
        /\ cache' = SetMessageCache(cache, memory, scope, "user", txt)
        /\ pc' = [pc EXCEPT ![p] = "extract"]
        /\ result' = [result EXCEPT ![p] = NoResult]
        /\ log' = LogAppend(scope, Message("user", txt))
        /\ age' = AgesAfter(scope)
        /\ interleaved' = [Overtaken(p, scope) EXCEPT ![p] = FALSE]
        /\ trace' = [trace EXCEPT ![p] = <<"setMessage:user", "extract:issued">>]
        /\ UNCHANGED <<memory, enrich, enrichArg, enrichOut, prompt, request, everExpired,
                       factsVars>>

\* Faulty variant: the enrichment callback is called without await, so the completion
\* request goes out while the callback is still running
ExtractReturnNoAwait(p, status, answerText) ==
    /\ pc[p] = "extract"
    /\ IF status # 200
          THEN /\ Leave(p, "failed", ApiError(status, "extractSearchQuery"))
               /\ trace' = Stepped(p, <<"extract:returned">>)
       ELSE IF enrich
          THEN /\ SendCompletion(p, << >>)
               /\ enrichArg' = [enrichArg EXCEPT ![p] =
                      IF SearchQuery(answerText) # << >> THEN SearchQuery(answerText)
                      ELSE messages[p][Len(messages[p])].text]
               /\ trace' = Stepped(p, <<"extract:returned", "enrich:invoked",
                                         "complete:issued">>)
          ELSE /\ SendCompletion(p, << >>)
               /\ trace' = Stepped(p, <<"extract:returned", "complete:issued">>)
               /\ UNCHANGED enrichArg
    /\ UNCHANGED <<memory, enrich, cache, dlg, asks, log, age, everExpired, interleaved,
                   factsVars>>

\* Faulty variant: a failed extraction request is issued once more before giving up
ExtractReturnRetry(p, status, answerText) ==
    /\ pc[p] = "extract"
    /\ IF status # 200 /\ Len(trace[p]) = 2
          THEN /\ trace' = Stepped(p, <<"extract:returned", "extract:issued">>)
               /\ UNCHANGED <<pc, text, opts, messages, enrichArg, enrichOut, prompt,
                               request, result>>
       ELSE IF status # 200
          THEN /\ Leave(p, "failed", ApiError(status, "extractSearchQuery"))
               /\ trace' = Stepped(p, <<"extract:returned">>)
       ELSE IF enrich
          THEN /\ enrichArg' = [enrichArg EXCEPT ![p] =
                      IF SearchQuery(answerText) # << >> THEN SearchQuery(answerText)
                      ELSE messages[p][Len(messages[p])].text]
               /\ pc' = [pc EXCEPT ![p] = "enrich"]
               /\ trace' = Stepped(p, <<"extract:returned", "enrich:invoked">>)
               /\ UNCHANGED <<text, opts, messages, enrichOut, prompt, request, result>>
          ELSE /\ SendCompletion(p, << >>)
               /\ trace' = Stepped(p, <<"extract:returned", "complete:issued">>)
               /\ UNCHANGED enrichArg
    /\ UNCHANGED <<memory, enrich, cache, dlg, asks, log, age, everExpired, interleaved,
                   factsVars>>

\* the extraction response arrives: the rest of extractSearchQuery, then buildPrompt
\* up to the await of the enrichment callback or, without one, to the completion request
ExtractReturn(p, status, answerText) ==
    /\ pc[p] = "extract"
    /\ IF status # 200
          THEN /\ Leave(p, "failed", ApiError(status, "extractSearchQuery"))
               /\ trace' = Stepped(p, <<"extract:returned">>)
       ELSE IF enrich
          THEN /\ enrichArg' = [enrichArg EXCEPT ![p] =
                      IF SearchQuery(answerText) # << >> THEN SearchQuery(answerText)
                      ELSE messages[p][Len(messages[p])].text]
               /\ pc' = [pc EXCEPT ![p] = "enrich"]
               /\ trace' = Stepped(p, <<"extract:returned", "enrich:invoked">>)
               /\ UNCHANGED <<text, opts, messages, enrichOut, prompt, request, result>>
          ELSE /\ SendCompletion(p, << >>)
               /\ trace' = Stepped(p, <<"extract:returned", "complete:issued">>)
               /\ UNCHANGED enrichArg
    /\ UNCHANGED <<memory, enrich, cache, dlg, asks, log, age, everExpired, interleaved,
                   factsVars>>

\* the enrichment callback's promise resolves
EnrichResolve(p, facts) ==
    /\ pc[p] = "enrich"
    /\ SendCompletion(p, facts)
    /\ trace' = Stepped(p, <<"enrich:returned", "complete:issued">>)
    /\ UNCHANGED <<memory, enrich, cache, dlg, enrichArg, asks, log, age, everExpired,
                   interleaved, factsVars>>

\* Faulty variant: the failing call takes its user message back out of the history
EnrichRejectRollback(p) ==
    /\ pc[p] = "enrich"
    /\ Leave(p, "failed", Rejected)
    /\ trace' = Stepped(p, <<"enrich:rejected">>)
    /\ cache' = IF dlg[p] # "" /\ cache[dlg[p]].v # << >>
                THEN [cache EXCEPT ![dlg[p]].v = SubSeq(@, 1, Len(@) - 1)]
                ELSE cache
    /\ UNCHANGED <<memory, enrich, dlg, asks, log, age, everExpired, interleaved, factsVars>>

\* the enrichment callback's promise rejects: the await throws inside buildPrompt
EnrichReject(p) ==
    /\ pc[p] = "enrich"
    /\ Leave(p, "failed", Rejected)
    /\ trace' = Stepped(p, <<"enrich:rejected">>)
    /\ UNCHANGED <<memory, enrich, cache, dlg, asks, log, age, everExpired, interleaved,
                   factsVars>>

\* Faulty variant: the response's status is not looked at
CompleteReturnNoStatusCheck(p, status, answerText) ==
    LET answer == OrEmpty(answerText)
    IN  /\ pc[p] = "complete"
        /\ IF answer # << >>
              THEN /\ cache' = SetMessageCache(cache, memory, dlg[p], "assistant", answer)
                   /\ log' = LogAppend(dlg[p], Message("assistant", answer))
                   /\ age' = AgesAfter(dlg[p])
                   /\ interleaved' = Overtaken(p, dlg[p])
                   /\ trace' = Stepped(p, <<"complete:returned", "setMessage:assistant">>)
                   /\ Leave(p, "done", Returned(answer))
              ELSE /\ Leave(p, "done", Returned(answer))
                   /\ trace' = Stepped(p, <<"complete:returned">>)
                   /\ UNCHANGED <<cache, log, age, interleaved>>
        /\ UNCHANGED <<memory, enrich, dlg, asks, everExpired, factsVars>>

\* Faulty variant: the answer is pushed to the array the call got at its start and that
\* array is written back, as if the read and the write of the history were apart
CompleteReturnStaleWrite(p, status, answerText) ==
    LET answer == OrEmpty(answerText)
    IN  /\ pc[p] = "complete"
        /\ IF status # 200
              THEN /\ Leave(p, "failed", ApiError(status, "ask"))
                   /\ trace' = Stepped(p, <<"complete:returned">>)
                   /\ UNCHANGED <<cache, log, age, interleaved>>
           ELSE IF answer # << >>
              THEN /\ cache' = IF dlg[p] = "" THEN cache
                               ELSE CacheSet(cache, dlg[p],
                                        PushTrim(messages[p], Message("assistant", answer), memory))
                   /\ log' = LogAppend(dlg[p], Message("assistant", answer))
                   /\ age' = AgesAfter(dlg[p])
                   /\ interleaved' = Overtaken(p, dlg[p])
                   /\ trace' = Stepped(p, <<"complete:returned", "setMessage:assistant">>)
                   /\ Leave(p, "done", Returned(answer))
              ELSE /\ Leave(p, "done", Returned(answer))
                   /\ trace' = Stepped(p, <<"complete:returned">>)
                   /\ UNCHANGED <<cache, log, age, interleaved>>
        /\ UNCHANGED <<memory, enrich, dlg, asks, everExpired, factsVars>>

\* Faulty variant: the answer is recorded also when it is empty
CompleteReturnAlwaysAppend(p, status, answerText) ==
    LET answer == OrEmpty(answerText)
    IN  /\ pc[p] = "complete"
        /\ IF status # 200
              THEN /\ Leave(p, "failed", ApiError(status, "ask"))
                   /\ trace' = Stepped(p, <<"complete:returned">>)
                   /\ UNCHANGED <<cache, log, age, interleaved>>
              ELSE /\ cache' = SetMessageCache(cache, memory, dlg[p], "assistant", answer)
                   /\ log' = LogAppend(dlg[p], Message("assistant", answer))
                   /\ age' = AgesAfter(dlg[p])
                   /\ interleaved' = Overtaken(p, dlg[p])
                   /\ trace' = Stepped(p, <<"complete:returned", "setMessage:assistant">>)
                   /\ Leave(p, "done", Returned(answer))
        /\ UNCHANGED <<memory, enrich, dlg, asks, everExpired, factsVars>>

\* the completion response arrives: the rest of ask
CompleteReturn(p, status, answerText) ==
    LET answer == OrEmpty(answerText)
    IN  /\ pc[p] = "complete"
        /\ IF status # 200
              THEN /\ Leave(p, "failed", ApiError(status, "ask"))
                   /\ trace' = Stepped(p, <<"complete:returned">>)
                   /\ UNCHANGED <<cache, log, age, interleaved>>
           ELSE IF answer # << >>
              THEN /\ cache' = SetMessageCache(cache, memory, dlg[p], "assistant", answer)
                   /\ log' = LogAppend(dlg[p], Message("assistant", answer))
                   /\ age' = AgesAfter(dlg[p])
                   /\ interleaved' = Overtaken(p, dlg[p])
                   /\ trace' = Stepped(p, <<"complete:returned", "setMessage:assistant">>)
                   /\ Leave(p, "done", Returned(answer))
              ELSE /\ Leave(p, "done", Returned(answer))
                   /\ trace' = Stepped(p, <<"complete:returned">>)
                   /\ UNCHANGED <<cache, log, age, interleaved>>
        /\ UNCHANGED <<memory, enrich, dlg, asks, everExpired, factsVars>>

-----------------------------------------------------------------------------
(* Time *)

TickSeconds == StdTTL

\* history: an age TickSeconds later; past StdTTL the ages are all one, StdTTL + TickSeconds
Older(a) == IF a + TickSeconds > StdTTL THEN StdTTL + TickSeconds ELSE a + TickSeconds

\* an entry TickSeconds later; one that has expired stays so until it is written
Aged(e) ==
    IF e.has /\ ~Expired(e) THEN [e EXCEPT !.left = @ - TickSeconds] ELSE e

\* time passes
Tick ==
    /\ cache' = [s \in Keys |-> Aged(cache[s])]
    /\ age' = [s \in Keys |->
                  IF cache[s].has /\ ~Expired(cache[s])
                  THEN [i \in 1..Len(age[s]) |-> Older(age[s][i])] ELSE age[s]]
    /\ everExpired' = [s \in Keys |-> everExpired[s] \/ Expired(cache'[s])]
    /\ UNCHANGED <<memory, enrich, pc, text, dlg, opts, messages, enrichArg, enrichOut,
                   prompt, request, result, asks, log, interleaved, trace, factsVars>>

\* node-cache's periodic check deletes the expired entries
CheckData ==
    /\ \E s \in Keys : Expired(cache[s])
    /\ cache' = [s \in Keys |-> IF Expired(cache[s]) THEN NoEntry ELSE cache[s]]
    /\ age' = [s \in Keys |-> IF Expired(cache[s]) THEN << >> ELSE age[s]]
    /\ UNCHANGED <<memory, enrich, pc, text, dlg, opts, messages, enrichArg, enrichOut,
                   prompt, request, result, asks, log, everExpired, interleaved, trace,
                   factsVars>>

-----------------------------------------------------------------------------
(* getFacts (facts.ts): a string is a sequence of characters here *)

Lower(c) ==
    CASE c = "F" -> "f" [] c = "O" -> "o" [] c = "D" -> "d" [] c = "E" -> "e"
      [] c = "A" -> "a" [] c = "T" -> "t" [] c = "C" -> "c" [] c = "U" -> "u"
      [] c = "I" -> "i" [] c = "S" -> "s" [] c = "N" -> "n" [] OTHER -> c

\* String.prototype.toLowerCase
ToLowerCase(s) == [i \in 1..Len(s) |-> Lower(s[i])]

KbContents == <<"M", "a", "r", "s">>      \* the contents of ./kb/marseoni.txt

NotCalled == [state |-> "none", value |-> << >>]
Resolved(value) == [state |-> "resolved", value |-> value]
ReadError == [state |-> "rejected", value |-> << >>]

\* fs/promises readFile('./kb/marseoni.txt', 'utf8')
ReadFile(readable) == IF readable THEN Resolved(KbContents) ELSE ReadError

\* Faulty variant: the text is searched as it is, without toLowerCase
GetFactsResultCaseSensitive(txt, readable) ==
    IF \/ Includes(txt, <<"f", "o", "o", "d">>)
       \/ Includes(txt, <<"e", "a", "t">>)
       \/ Includes(txt, <<"c", "u", "i", "s", "i", "n", "e">>)
    THEN ReadFile(readable)
    ELSE Resolved(<< >>)

\* what the promise getFacts returns settles to
GetFactsResult(txt, readable) ==
    LET t == ToLowerCase(txt)
    IN  IF \/ Includes(t, <<"f", "o", "o", "d">>)
           \/ Includes(t, <<"e", "a", "t">>)
           \/ Includes(t, <<"c", "u", "i", "s", "i", "n", "e">>)
        THEN ReadFile(readable)
        ELSE Resolved(<< >>)

Chunks ==
    { <<"f", "o">>, <<"o", "d">>, <<"F", "O", "O", "D">>, <<"e", "a">>, <<"E", "a">>,
      <<"t">>, <<"T">>, <<"c", "u", "i">>, <<"s", "i", "n", "e">>,
      <<"C", "u", "I", "s", "I", "N", "E">>, <<"x">>, <<" ">> }

\* the caller composes the text it will pass
AddChunk(c) ==
    /\ factsOut = NotCalled
    /\ Len(factsText) + Len(c) <= MaxTextLen
    /\ factsText' = factsText \o c
    /\ UNCHANGED <<kbFile, factsOut, chatVars>>

GetFacts ==
    /\ factsOut = NotCalled
    /\ factsOut' = GetFactsResult(factsText, kbFile)
    /\ UNCHANGED <<factsText, kbFile, chatVars>>

-----------------------------------------------------------------------------
(* Specifications *)

ChatInit ==
    /\ memory \in {ChatMemory(m) : m \in ConfMemory}
    /\ enrich \in BOOLEAN
    /\ cache = [s \in Keys |-> NoEntry]
    /\ pc = [p \in Calls |-> "idle"]
    /\ text = [p \in Calls |-> << >>]
    /\ dlg = [p \in Calls |-> ""]
    /\ opts = [p \in Calls |-> NoOpts]
    /\ messages = [p \in Calls |-> << >>]
    /\ enrichArg = [p \in Calls |-> << >>]
    /\ enrichOut = [p \in Calls |-> << >>]
    /\ prompt = [p \in Calls |-> << >>]
    /\ request = [p \in Calls |-> NoOpts]
    /\ result = [p \in Calls |-> NoResult]
    /\ asks = 0
    /\ log = [s \in Keys |-> << >>]
    /\ age = [s \in Keys |-> << >>]
    /\ everExpired = [s \in Keys |-> FALSE]
    /\ interleaved = [p \in Calls |-> FALSE]
    /\ trace = [p \in Calls |-> << >>]

FactsInit ==
    /\ factsText = << >>
    /\ kbFile \in BOOLEAN
    /\ factsOut = NotCalled

Init == ChatInit /\ factsText = << >> /\ kbFile = TRUE /\ factsOut = NotCalled

Next ==
    \/ \E p \in Calls, txt \in Texts, d \in BodyDlgs : Ask(p, txt, d, Undefined)
    \/ \E p \in Calls, status \in Statuses :
           \E answerText \in ExtractTexts(status) : ExtractReturn(p, status, answerText)
    \/ \E p \in Calls, facts \in FactsResults : EnrichResolve(p, facts)
    \/ \E p \in Calls : EnrichReject(p)
    \/ \E p \in Calls, status \in Statuses :
           \E answerText \in AnswerTexts(status) : CompleteReturn(p, status, answerText)
    \/ Tick
    \/ CheckData

Spec == Init /\ [][Next]_vars

\* getFacts alone, on every text of up to MaxTextLen characters made of Chunks
FactsSpecInit == FactsInit /\ ChatInit /\ memory = DefaultMemory /\ enrich

FactsNext ==
    \/ \E c \in Chunks : AddChunk(c)
    \/ GetFacts

FactsSpec == FactsSpecInit /\ [][FactsNext]_vars

\* ask called directly, one call at a time and without a scope, with every opts object
\* of CallerOpts, the remote calls answering 200
RequestInit == Init /\ memory = DefaultMemory

RequestNext ==
    \/ \E txt \in Texts, o \in CallerOpts : Ask("c1", txt, Undefined, Some(o))
    \/ \E answerText \in ExtractTexts(200) : ExtractReturn("c1", 200, answerText)
    \/ \E facts \in FactsResults : EnrichResolve("c1", facts)
    \/ \E answerText \in AnswerTexts(200) : CompleteReturn("c1", 200, answerText)

RequestSpec == RequestInit /\ [][RequestNext]_vars

-----------------------------------------------------------------------------
(* Properties *)

Min(a, b) == IF a < b THEN a ELSE b

\* the last n elements of a sequence
LastN(seq, n) == SubSeq(seq, Len(seq) - n + 1, Len(seq))

Last(seq) == seq[Len(seq)]

\* C1: with a positive memory size, the history stored for a non-empty scope, and the
\* array a call got back from setMessage for it, never hold more than memory messages,
\* in any interleaving and whatever the calls end with.
C1_HistoryBounded ==
    memory > 0 =>
        /\ \A s \in Keys : Len(cache[s].v) <= memory
        /\ \A p \in Calls : dlg[p] # "" => Len(messages[p]) <= memory

\* a scope that received more appends than memory, the last one an assistant's, and
\* holds exactly memory messages
C1_Witness ==
    \E s \in Scopes :
        /\ Len(log[s]) > memory
        /\ Last(log[s]).sender = "assistant"
        /\ cache[s].has /\ Len(cache[s].v) = memory

\* C2: as long as no entry of the scope has expired, the stored history is exactly the
\* last min(n, memory) of the n messages appended under the scope, oldest first, in
\* the order the appends were executed.
C2_StrictFifo ==
    \A s \in Scopes :
        ~everExpired[s] =>
            /\ cache[s].has <=> log[s] # << >>
            /\ cache[s].v = LastN(log[s], Min(Len(log[s]), memory))

\* memory 2 and three appends: the last two remain, the oldest is gone
C2_Witness ==
    \E s \in Scopes :
        /\ memory = 2 /\ ~everExpired[s]
        /\ Len(log[s]) = 3
        /\ cache[s].v = <<log[s][2], log[s][3]>>

\* the format of a prompt, as the remote model expects it
ExpectedTurn(sender, txt) ==
    <<"\n", "<|im_start|>", sender, "\n">> \o txt \o <<"\n", "<|im_end|>">>

ExpectedMarker == <<"\n", "<|im_start|>", "assistant", "\n">>

\* the part of a prompt from its first turn on: what follows the system segment
Conversation(pr) ==
    LET starts == {i \in 1..(Len(pr) - 1) : pr[i] = "\n" /\ pr[i + 1] = "<|im_start|>"}
    IN  IF starts = {} THEN << >>
        ELSE SubSeq(pr, CHOOSE i \in starts : \A j \in starts : i <= j, Len(pr))

\* call p takes a step: each stretch of ask moves the call on
Moved(p) == pc'[p] # pc[p]

\* C3: no step of an ask with an empty or omitted scope changes the history cache, and
\* the conversation in the prompt it sends is its own user text and nothing else.
C3_EmptyScopeStateless ==
    /\ [][\A p \in Calls : (Moved(p) /\ dlg'[p] = "") => cache' = cache]_vars
    /\ [](\A p \in Calls :
            (pc[p] = "complete" /\ dlg[p] = "") =>
                Conversation(prompt[p]) = ExpectedTurn("user", text[p]) \o ExpectedMarker)

\* the second ask of a behaviour has no scope and has sent its prompt, while a history
\* is stored for some scope
C3_Witness ==
    \E p \in Calls :
        /\ pc[p] = "complete" /\ dlg[p] = "" /\ asks = 2
        /\ \E s \in Scopes : cache[s].has

\* C4: a completion response with a status other than 200 makes ask fail with an error
\* carrying that status; no answer is returned and nothing is appended to any history.
C4_CompletionErrorFails ==
    [][\A p \in Calls :
          (pc[p] = "complete" /\ Moved(p)) =>
              \A status \in Statuses \ {200} : \A answerText \in AnswerTexts(status) :
                  CompleteReturn(p, status, answerText) =>
                      /\ pc'[p] = "failed"
                      /\ result'[p].kind = "error" /\ result'[p].status = status
                      /\ result'[p].text = << >>
                      /\ cache' = cache /\ log' = log]_vars

\* a call on a non-empty scope failed in ask on the completion response, and the last
\* message of its scope is still a user's
C4_Witness ==
    \E p \in Calls :
        /\ pc[p] = "failed" /\ result[p].kind = "error" /\ result[p].at = "ask"
        /\ dlg[p] \in Scopes /\ cache[dlg[p]].has
        /\ Last(cache[dlg[p]].v).sender = "user"

\* C5: a 200 completion response makes ask return the text, '' when it is absent; an
\* empty answer leaves every history as it is; a non-empty one is appended as an
\* assistant message under the call's own scope and under no other; and an assistant
\* message is appended by no other step.
C5_AnswerAppendedIffNonEmpty ==
    [][/\ \A p \in Calls :
             (pc[p] = "complete" /\ Moved(p)) =>
                 \A answerText \in AnswerTexts(200) :
                     CompleteReturn(p, 200, answerText) =>
                         LET answer == OrEmpty(answerText)
                         IN  /\ pc'[p] = "done"
                             /\ result'[p].kind = "answer" /\ result'[p].text = answer
                             /\ answer = << >> => (cache' = cache /\ log' = log)
                             /\ (answer # << >> /\ dlg[p] # "") =>
                                    /\ cache'[dlg[p]].has
                                    /\ Last(cache'[dlg[p]].v) =
                                           [sender |-> "assistant", text |-> answer]
                                    /\ log'[dlg[p]] =
                                           Append(log[dlg[p]], Last(cache'[dlg[p]].v))
                                    /\ \A s \in Keys \ {dlg[p]} : cache'[s] = cache[s]
       /\ \A s \in Keys :
             (log'[s] # log[s] /\ Last(log'[s]).sender = "assistant") =>
                 \E p \in Calls, answerText \in AnswerTexts(200) :
                     /\ CompleteReturn(p, 200, answerText)
                     /\ dlg[p] = s /\ OrEmpty(answerText) # << >>]_vars

\* a call on a non-empty scope returned '' and the last message of its scope is its
\* own question
C5_Witness ==
    \E p \in Calls :
        /\ pc[p] = "done" /\ result[p].kind = "answer" /\ result[p].text = << >>
        /\ dlg[p] \in Scopes /\ cache[dlg[p]].has
        /\ Last(cache[dlg[p]].v).sender = "user"

RECURSIVE ExpectedTurns(_)
ExpectedTurns(h) ==
    IF h = << >> THEN << >>
    ELSE ExpectedTurn(Head(h).sender, Head(h).text) \o ExpectedTurns(Tail(h))

ExpectedRole == <<"<|im_start|>", "system", "\n">> \o Role

\* C6: when a call on a non-empty scope has sent its prompt, no other call appended to
\* the scope since the call began, nothing of the scope expired and nothing was trimmed,
\* the prompt is the role segment first, then every message appended under the scope,
\* in order and tagged with its sender, the last one the call's own user text, then one
\* empty assistant marker.
C6_PromptOrder ==
    \A p \in Calls :
        ( /\ pc[p] = "complete" /\ dlg[p] \in Scopes
          /\ ~interleaved[p] /\ ~everExpired[dlg[p]]
          /\ Len(log[dlg[p]]) <= memory ) =>
            /\ SubSeq(prompt[p], 1, Len(ExpectedRole)) = ExpectedRole
            /\ Conversation(prompt[p]) = ExpectedTurns(log[dlg[p]]) \o ExpectedMarker
            /\ Last(log[dlg[p]]) = [sender |-> "user", text |-> text[p]]

\* ask("A") on room1 answered "B", then ask("C") on room1: the prompt of the second
\* call, with no facts
C6_Witness ==
    \E p \in Calls :
        /\ pc[p] = "complete" /\ dlg[p] = "room1"
        /\ log["room1"] = << [sender |-> "user", text |-> <<"A">>],
                             [sender |-> "assistant", text |-> <<"B">>],
                             [sender |-> "user", text |-> <<"C">>] >>
        /\ prompt[p] = << "<|im_start|>", "system", "\n", "AI assistant recommending food",
                          "\n", "<|im_start|>", "user", "\n", "A", "\n", "<|im_end|>",
                          "\n", "<|im_start|>", "assistant", "\n", "B", "\n", "<|im_end|>",
                          "\n", "<|im_start|>", "user", "\n", "C", "\n", "<|im_end|>",
                          "\n", "<|im_start|>", "assistant", "\n" >>

\* C7: when the enrichment callback fails, the call goes on to the completion request,
\* with a prompt that has no facts block.
C7_EnrichFailureTolerated ==
    [][\A p \in Calls :
          EnrichReject(p) =>
              /\ pc'[p] = "complete"
              /\ prompt'[p] # << >> /\ ~Includes(prompt'[p], <<"Facts:">>)]_vars

\* C8, as it holds: calls interleave at their awaits only and setMessage reads and
\* writes the history in one stretch, so no append is lost: while no entry of the scope
\* has expired, every appended message that fewer than memory messages were appended
\* after is in the stored history, at its place.
C8_NoAppendDropped ==
    \A s \in Scopes :
        ~everExpired[s] =>
            \A i \in 1..Len(log[s]) :
                Len(log[s]) - i < memory =>
                    \E j \in 1..Len(cache[s].v) :
                        /\ cache[s].v[j] = log[s][i]
                        /\ Len(cache[s].v) - j = Len(log[s]) - i

\* a call appended its answer after another call had appended to the same scope in
\* between: the race of the claim
Raced(p, s) ==
    /\ pc[p] = "done" /\ result[p].text # << >>
    /\ dlg[p] = s /\ interleaved[p]
    /\ ~everExpired[s] /\ memory = DefaultMemory
    /\ Len(log[s]) = 3

\* the race happened and all three appends are stored
C8_Witness ==
    \E p \in Calls, s \in Scopes :
        /\ Raced(p, s)
        /\ cache[s].v = log[s]

\* C8, as claimed: in the race the append of the other call is overwritten, so a
\* message is missing from the stored history although fewer than memory messages
\* were appended after it.
C8_RaceDropsAppend ==
    \A p \in Calls, s \in Scopes :
        Raced(p, s) =>
            \E i \in 1..Len(log[s]) :
                \A j \in 1..Len(cache[s].v) : cache[s].v[j] # log[s][i]

\* C9: an ask on a scope whose entry has expired (more than StdTTL seconds since the
\* scope's last write: node-cache compares t < Date.now()) starts the history anew from
\* its own user message, whatever the expired history held, and the prompt of a call
\* whose history is that one message holds that one turn.
C9_ExpiredHistoryUnreachable ==
    /\ [][\A p \in Calls :
             ( /\ Moved(p) /\ pc'[p] = "extract" /\ dlg'[p] \in Scopes
               /\ cache[dlg'[p]].has /\ cache[dlg'[p]].left < 0 ) =>
                 /\ messages'[p] = << [sender |-> "user", text |-> text'[p]] >>
                 /\ cache'[dlg'[p]].has
                 /\ cache'[dlg'[p]].v = << [sender |-> "user", text |-> text'[p]] >>
                 /\ cache'[dlg'[p]].left = StdTTL]_vars
    /\ [](\A p \in Calls :
            (pc[p] = "complete" /\ Len(messages[p]) = 1) =>
                /\ messages[p][1] = [sender |-> "user", text |-> text[p]]
                /\ Conversation(prompt[p]) = ExpectedTurn("user", text[p]) \o ExpectedMarker)

\* with memory 2, a history of two messages expired and the next call on the scope sent
\* a prompt made of its own message alone
C9_Witness ==
    \E p \in Calls :
        /\ pc[p] = "complete" /\ dlg[p] \in Scopes
        /\ memory = 2 /\ everExpired[dlg[p]]
        /\ Len(log[dlg[p]]) = 3
        /\ cache[dlg[p]].v = << [sender |-> "user", text |-> text[p]] >>
        /\ Conversation(prompt[p]) = ExpectedTurn("user", text[p]) \o ExpectedMarker

\* the same letter in either case
SameLetter(a, b) ==
    \/ a = b
    \/ \E pair \in { <<"F", "f">>, <<"O", "o">>, <<"D", "d">>, <<"E", "e">>, <<"A", "a">>,
                      <<"T", "t">>, <<"C", "c">>, <<"U", "u">>, <<"I", "i">>, <<"S", "s">>,
                      <<"N", "n">> } :
           \/ (a = pair[1] /\ b = pair[2])
           \/ (a = pair[2] /\ b = pair[1])

\* word occurs in txt, letter case aside
Contains(txt, word) ==
    \E i \in 1..(Len(txt) - Len(word) + 1) :
        \A j \in 1..Len(word) : SameLetter(txt[i + j - 1], word[j])

\* C10: getFacts resolves to the contents of the knowledge-base file (which it can
\* read) when the text contains food, eat or cuisine in any letter case, and to ''
\* for every other text.
C10_GetFactsKeywords ==
    factsOut.state # "none" =>
        IF \/ Contains(factsText, <<"f", "o", "o", "d">>)
           \/ Contains(factsText, <<"e", "a", "t">>)
           \/ Contains(factsText, <<"c", "u", "i", "s", "i", "n", "e">>)
        THEN kbFile => factsOut = [state |-> "resolved", value |-> KbContents]
        ELSE factsOut = [state |-> "resolved", value |-> << >>]

\* a keyword in mixed case inside a longer text
C10_Witness ==
    /\ factsOut = [state |-> "resolved", value |-> KbContents]
    /\ factsText = <<"x", "E", "a", "t", " ">>

\* the place of a step in one ask
StepRank(e) ==
    CASE e = "setMessage:user" -> 1
      [] e = "extract:issued" -> 2
      [] e = "extract:returned" -> 3
      [] e = "enrich:invoked" -> 4
      [] e \in {"enrich:returned", "enrich:rejected"} -> 5
      [] e = "complete:issued" -> 6
      [] e = "complete:returned" -> 7
      [] e = "setMessage:assistant" -> 8

\* the places of the steps of one ask, with and without an enrichment callback
AskOrder == IF enrich THEN <<1, 2, 3, 4, 5, 6, 7, 8>> ELSE <<1, 2, 3, 6, 7, 8>>

\* the positions of a step in the trace of call p
Positions(p, e) == {i \in 1..Len(trace[p]) : trace[p][i] = e}

\* C11: the steps a call has taken are, in this order and each at most once, the user
\* append, the extraction call issued and returned, the enrichment callback (if one is
\* configured) invoked and settled, the completion call issued and returned, the
\* assistant append; a call waits for the one remote call it issued last; the completion
\* call is issued after the extraction call returned and the assistant append comes
\* after the completion response.
C11_StepsInOrder ==
    \A p \in Calls :
        /\ Len(trace[p]) <= Len(AskOrder)
        /\ \A i \in 1..Len(trace[p]) : StepRank(trace[p][i]) = AskOrder[i]
        /\ pc[p] = "extract" <=> (trace[p] # << >> /\ Last(trace[p]) = "extract:issued")
        /\ pc[p] = "enrich" <=> (trace[p] # << >> /\ Last(trace[p]) = "enrich:invoked")
        /\ pc[p] = "complete" <=> (trace[p] # << >> /\ Last(trace[p]) = "complete:issued")
        /\ \A i \in Positions(p, "complete:issued") :
               \E j \in Positions(p, "extract:returned") : j < i
        /\ \A i \in Positions(p, "setMessage:assistant") :
               \E j \in Positions(p, "complete:returned") : j < i

\* a call with an enrichment callback went through all eight steps
C11_Witness ==
    \E p \in Calls :
        /\ pc[p] = "done"
        /\ trace[p] = << "setMessage:user", "extract:issued", "extract:returned",
                         "enrich:invoked", "enrich:returned", "complete:issued",
                         "complete:returned", "setMessage:assistant" >>

\* C12: a call issues the extraction request and the completion request at most once
\* each; an extraction response with a status other than 200 ends the call with an
\* error carrying that status, thrown by extractSearchQuery, and changes no history;
\* a call that ended so has invoked no enrichment callback, issued no completion
\* request and appended no assistant message.
C12_ExtractionErrorTerminal ==
    /\ [][\A p \in Calls :
             (pc[p] = "extract" /\ Moved(p)) =>
                 \A status \in Statuses \ {200} : \A answerText \in ExtractTexts(status) :
                     ExtractReturn(p, status, answerText) =>
                         /\ pc'[p] = "failed"
                         /\ result'[p].kind = "error" /\ result'[p].status = status
                         /\ result'[p].at = "extractSearchQuery"
                         /\ cache' = cache /\ log' = log]_vars
    /\ [](\A p \in Calls :
            /\ Cardinality(Positions(p, "extract:issued")) <= 1
            /\ Cardinality(Positions(p, "complete:issued")) <= 1
            /\ (pc[p] = "failed" /\ result[p].at = "extractSearchQuery") =>
                   /\ result[p].status # 200
                   /\ trace[p] = <<"setMessage:user", "extract:issued", "extract:returned">>)

\* with an enrichment callback configured, a call on a non-empty scope failed on a 500
\* extraction response; the last message of its scope is a user's
C12_Witness ==
    \E p \in Calls :
        /\ enrich /\ pc[p] = "failed"
        /\ result[p] = [kind |-> "error", status |-> 500, at |-> "extractSearchQuery",
                        text |-> << >>]
        /\ dlg[p] \in Scopes /\ cache[dlg[p]].has
        /\ Last(cache[dlg[p]].v).sender = "user"

\* the phrases by which the model says it found no query
MarkerPhrases == {"I'm sorry, but", "is not a valid search query"}

\* what the enrichment callback is to be invoked with
ExpectedEnrichArg(answerText, raw) ==
    IF /\ answerText.defined /\ answerText.v # << >>
       /\ \A i \in 1..Len(answerText.v) : answerText.v[i] \notin MarkerPhrases
    THEN answerText.v ELSE raw

C14_CoreOptionsFixed ==
    \A p \in Calls :
        pc[p] = "complete" =>
            /\ prompt[p] = BuildPrompt(enrichOut[p], messages[p])
            /\ request[p].prompt = prompt[p]
            /\ request[p].model = <<"gpt-35-turbo">>
            /\ request[p].stop = << "<|im_end|>" >>
            /\ request[p].max_tokens =
                   IF "max_tokens" \in DOMAIN opts[p] THEN opts[p].max_tokens ELSE <<"500">>
            /\ request[p].temperature =
                   IF "temperature" \in DOMAIN opts[p] THEN opts[p].temperature ELSE <<"0.7">>
            /\ request[p].top_p =
                   IF "top_p" \in DOMAIN opts[p] THEN opts[p].top_p ELSE <<"0.95">>
            /\ "n" \in DOMAIN request[p] <=> "n" \in DOMAIN opts[p]
            /\ "n" \in DOMAIN opts[p] => request[p].n = opts[p].n

\* opts with prompt, model, stop and max_tokens of its own: the request has the
\* assembled prompt and the caller's max_tokens
C14_Witness ==
    \E p \in Calls :
        /\ pc[p] = "complete"
        /\ {"prompt", "model", "stop", "max_tokens"} \subseteq DOMAIN opts[p]
        /\ "temperature" \notin DOMAIN opts[p]
        /\ request[p].prompt = prompt[p] /\ prompt[p] # opts[p].prompt
        /\ request[p].max_tokens = <<"50">>

\* where the first turn of a prompt starts: its first start marker after the system
\* segment's own
FirstTurn(pr) == CHOOSE i \in 2..Len(pr) : pr[i] = "<|im_start|>" /\
                                          \A j \in 2..(i - 1) : pr[j] # "<|im_start|>"

\* C15: in the prompt of every completion request, what precedes the line break and
\* start marker of the first turn is the system start, the role and, when the callback
\* resolved to a non-empty string, the facts header and a part of that string, and it
\* holds no "<|im_end|>"; the first turn is the first message of the history.
C15_SystemEndOmitted ==
    \A p \in Calls :
        pc[p] = "complete" =>
            LET pr == prompt[p]
                k == FirstTurn(pr)
                system == SubSeq(pr, 1, k - 2)
                below == SubSeq(system, Len(ExpectedRole) + 1, Len(system))
            IN  /\ \E i \in 2..Len(pr) : pr[i] = "<|im_start|>"
                /\ pr[k - 1] = "\n" /\ pr[k + 1] = messages[p][1].sender
                /\ \A i \in 1..k : pr[i] # "<|im_end|>"
                /\ SubSeq(system, 1, Len(ExpectedRole)) = ExpectedRole
                /\ IF enrichOut[p] = << >> THEN below = << >>
                   ELSE /\ SubSeq(below, 1, 4) = <<"\n", "\n", "Facts:", "\n">>
                        /\ Includes(enrichOut[p], SubSeq(below, 5, Len(below)))

\* a prompt with facts and a history of three messages: the last fact is followed by
\* the start of the first turn
C15_Witness ==
    \E p \in Calls :
        /\ pc[p] = "complete" /\ Len(messages[p]) = 3
        /\ Includes(prompt[p], <<"F2", "\n", "<|im_start|>", "user", "\n", "A">>)

\* C16: the step on which a call fails, be it on the extraction response, on the
\* rejection of the enrichment callback or on the completion response, changes no
\* history, so the user message the call appended stays as the last message of its
\* scope (no other call having written there); and a later call on the scope, in whose
\* history nothing expired or was trimmed, sends every user message of the scope, the
\* unanswered ones too, as a turn of its prompt.
C16_FailureKeepsUserMessage ==
    /\ [][\A p \in Calls :
             (Moved(p) /\ pc'[p] = "failed") =>
                 /\ cache' = cache /\ log' = log
                 /\ (dlg[p] \in Scopes /\ ~interleaved[p] /\ ~everExpired[dlg[p]]) =>
                        Last(cache'[dlg[p]].v) = [sender |-> "user", text |-> text[p]]]_vars
    /\ [](\A q \in Calls :
            ( /\ pc[q] = "complete" /\ dlg[q] \in Scopes
              /\ ~interleaved[q] /\ ~everExpired[dlg[q]]
              /\ Len(log[dlg[q]]) <= memory ) =>
                \A i \in 1..Len(log[dlg[q]]) :
                    log[dlg[q]][i].sender = "user" =>
                        Includes(prompt[q], ExpectedTurn("user", log[dlg[q]][i].text)))

\* a call failed on the rejection of the enrichment callback, its question stayed, and
\* the next call on the scope sent both questions, one after the other
C16_Witness ==
    \E p \in Calls, q \in Calls :
        /\ pc[p] = "failed" /\ result[p].kind = "rejected"
        /\ pc[q] = "complete" /\ dlg[q] = dlg[p] /\ dlg[q] \in Scopes
        /\ cache[dlg[q]].v = << [sender |-> "user", text |-> <<"A">>],
                                [sender |-> "user", text |-> <<"C">>] >>
        /\ Includes(prompt[q], ExpectedTurn("user", <<"A">>) \o ExpectedTurn("user", <<"C">>))

\* the messages of a sequence, as a set
Elements(seq) == {seq[i] : i \in 1..Len(seq)}

\* C17: a step of a call on scope s leaves the stored history, and the appends, of
\* every other scope as they were; the array the call works on holds only messages
\* that were appended under s, its prompt is made of the turns of that array, and no
\* user message appended under another scope is in the array or in the prompt.
C17_ScopesIsolated ==
    /\ [][\A p \in Calls :
             Moved(p) =>
                 \A t \in Keys \ {dlg'[p]} : cache'[t] = cache[t] /\ log'[t] = log[t]]_vars
    /\ [](\A p \in Calls :
            (pc[p] \in {"extract", "enrich", "complete"} /\ dlg[p] \in Scopes) =>
                /\ Elements(messages[p]) \subseteq Elements(log[dlg[p]])
                /\ pc[p] = "complete" =>
                       Conversation(prompt[p]) = ExpectedTurns(messages[p]) \o ExpectedMarker
                /\ \A t \in Scopes \ {dlg[p]} : \A m \in Elements(log[t]) :
                       m.sender = "user" =>
                           /\ m \notin Elements(messages[p])
                           /\ ~Includes(prompt[p], ExpectedTurn("user", m.text)))

\* two calls in flight at once, one on each scope, each with a prompt of its own
\* question alone
C17_Witness ==
    /\ pc["c1"] = "complete" /\ pc["c2"] = "complete"
    /\ dlg["c1"] = "room1" /\ dlg["c2"] = "room2"
    /\ cache["room1"].v = << [sender |-> "user", text |-> text["c1"]] >>
    /\ cache["room2"].v = << [sender |-> "user", text |-> text["c2"]] >>
    /\ Conversation(prompt["c1"]) = ExpectedTurn("user", text["c1"]) \o ExpectedMarker
    /\ Conversation(prompt["c2"]) = ExpectedTurn("user", text["c2"]) \o ExpectedMarker

\* C18: every append under a scope leaves the scope's entry with the full StdTTL
\* seconds to live; the time an entry has left is StdTTL less the age of its newest
\* message, whatever the ages of the older ones, and the entry is served as long as
\* that age is at most StdTTL.
C18_TtlRestartsOnWrite ==
    /\ [][\A s \in Scopes :
             log'[s] # log[s] =>
                 /\ cache'[s].has /\ cache'[s].left = StdTTL
                 /\ Last(age'[s]) = 0]_vars
    /\ [](\A s \in Scopes :
            cache[s].has =>
                /\ Len(age[s]) = Len(cache[s].v)
                /\ \A i \in 1..(Len(age[s]) - 1) : age[s][i] >= age[s][i + 1]
                /\ cache[s].left = StdTTL - Last(age[s])
                /\ CacheGet(cache, s).defined <=> Last(age[s]) <= StdTTL)

\* a message appended more than StdTTL seconds ago is in the history that is served,
\* and in the prompt a call has sent, the scope having been written in between
C18_Witness ==
    \E p \in Calls :
        /\ pc[p] = "complete" /\ dlg[p] \in Scopes
        /\ CacheGet(cache, dlg[p]).defined
        /\ age[dlg[p]][1] > StdTTL
        /\ cache[dlg[p]].v[1] = [sender |-> "user", text |-> <<"A">>]
        /\ Includes(prompt[p], ExpectedTurn("user", <<"A">>))

====
